---------------------------- MODULE Spec2Model ----------------------------
(***************************************************************************)
(* A model of cc-host-mapper (src/src/lib.rs): decoding of the cluster     *)
(* index into host pointers, resolution of one pointer through a shard     *)
(* range and archive fragments (query_host / retrieve_ip), and the         *)
(* concurrent pipeline of crawl_host_ip_mapping (rayon workers, the writer *)
(* thread, the progress thread and the two channels).                      *)
(*                                                                         *)
(* Text is modelled as a sequence of one-character strings, so that the    *)
(* splitting, reversing and joining the code does is computed, not         *)
(* assumed.  A few fixed pieces of text that the code only concatenates    *)
(* (the base URL, URL path pieces, an index id) are single longer tokens.  *)
(***************************************************************************)
EXTENDS Integers, Sequences, FiniteSets, TLC

VARIABLES
    idxDoc,      \* the lines of the fetched cluster.idx document
    idxPc,       \* read_cluster_idx: "start" | "done" | "panic"
    pointers,    \* the Vec<IndexHostPointer> read_cluster_idx returns
    qIn,         \* query_host under test: [pointer, rsp]
    qPc,         \* "start" | "done"
    qOut,        \* what that query_host call did (see query_host)
    pc,          \* crawl_host_ip_mapping (the main thread): "start" | "pool" |
                 \* "join" | "returned" | "unwinding" | "aborted"
    tasks,       \* per pointer of par_iter: "pending" | "running" | "done" | "panicked"
    res,         \* per pointer: the shard answer's kind and what query_host did
    workers,     \* per pointer: the entries of its query_host result that the
                 \* closure running on a rayon thread has still to send
    chan,        \* the MappingEntry channel (sender -> receiver)
    chanPb,      \* the progress channel (sender_pb -> receiver_pb)
    sendersLive, \* whether for_each_with still holds (clones of) the two senders
    wpc,         \* the writer thread: "off" | "init" | "loop" | "done" | "dead"
    wbuf,        \* the lines held in the BufWriter
    sinkOk,      \* whether the output file can be created and written
    file,        \* the lines in the output file
    pb,          \* the progress bar: [pos, msg]
    arrived,     \* history: every entry sent on the mapping channel, in order
    pbSent,      \* history: every host sent on the progress channel, in order
    catalog,     \* the Vec<Index> retrieve_indices returns
    catPc,       \* the index selection: "start" | "lib_done" | "main_done" | "panic"
    catOut       \* the sorted list and the Index selected from it

catVars == <<catalog, catPc, catOut>>
idxVars == <<idxDoc, idxPc, pointers>>
qVars == <<qIn, qPc, qOut>>
poolVars == <<tasks, res, workers>>
chanVars == <<chan, chanPb, sendersLive, arrived, pbSent>>
writerVars == <<wpc, wbuf, file, sinkOk>>
pipeVars == <<pc, tasks, res, workers, chan, chanPb, sendersLive, wpc, wbuf, file,
              sinkOk, pb, arrived, pbSent>>
vars == <<idxDoc, idxPc, pointers, qIn, qPc, qOut, pc, tasks, res, workers, chan,
          chanPb, sendersLive, wpc, wbuf, file, sinkOk, pb, arrived, pbSent,
          catalog, catPc, catOut>>

----------------------------------------------------------------------------
(* Text helpers: what the std library calls used by the code compute.      *)

Digits == {"0", "1", "2", "3", "4", "5", "6", "7", "8", "9"}

\* A character that char::is_numeric accepts and that is no ASCII digit
\* (superscript two, U+00B2).
SuperscriptTwo == "U+00B2"

\* char::is_numeric
IsNumeric(c) == c \in Digits \cup {SuperscriptTwo}

DigitVal(c) ==
    CASE c = "0" -> 0 [] c = "1" -> 1 [] c = "2" -> 2 [] c = "3" -> 3
      [] c = "4" -> 4 [] c = "5" -> 5 [] c = "6" -> 6 [] c = "7" -> 7
      [] c = "8" -> 8 [] c = "9" -> 9

DigitChar(n) ==
    CASE n = 0 -> "0" [] n = 1 -> "1" [] n = 2 -> "2" [] n = 3 -> "3"
      [] n = 4 -> "4" [] n = 5 -> "5" [] n = 6 -> "6" [] n = 7 -> "7"
      [] n = 8 -> "8" [] n = 9 -> "9"

\* Whether pat occurs in s at position i.
MatchesAt(s, pat, i) ==
    /\ i + Len(pat) - 1 <= Len(s)
    /\ \A k \in 1..Len(pat) : s[i + k - 1] = pat[k]

RECURSIVE SplitFrom(_, _, _, _)
SplitFrom(s, pat, i, cur) ==
    IF i > Len(s) THEN <<cur>>
    ELSE IF MatchesAt(s, pat, i)
         THEN <<cur>> \o SplitFrom(s, pat, i + Len(pat), <<>>)
         ELSE SplitFrom(s, pat, i + 1, Append(cur, s[i]))

\* str::split(pat): the pieces between the occurrences of pat; never empty.
Split(s, pat) == SplitFrom(s, pat, 1, <<>>)

\* Vec::reverse
Reverse(v) == [i \in 1..Len(v) |-> v[Len(v) + 1 - i]]

RECURSIVE Join(_, _)
\* [&str]::join(sep)
Join(v, sep) ==
    IF Len(v) = 0 THEN <<>>
    ELSE IF Len(v) = 1 THEN v[1]
    ELSE v[1] \o sep \o Join(Tail(v), sep)

\* str::starts_with
StartsWith(s, pre) == MatchesAt(s, pre, 1)

RECURSIVE StripZeros(_)
StripZeros(s) ==
    IF Len(s) > 1 /\ s[1] = "0" THEN StripZeros(Tail(s)) ELSE s

RECURSIVE LexGreater(_, _)
\* For two digit strings of the same length: a > b.
LexGreater(a, b) ==
    IF Len(a) = 0 THEN FALSE
    ELSE IF a[1] # b[1] THEN DigitVal(a[1]) > DigitVal(b[1])
    ELSE LexGreater(Tail(a), Tail(b))

I64MaxDigits ==
    <<"9","2","2","3","3","7","2","0","3","6","8","5","4","7","7","5","8","0","7">>
I64MinDigits ==
    <<"9","2","2","3","3","7","2","0","3","6","8","5","4","7","7","5","8","0","8">>

ParseErr == [ok |-> FALSE, val |-> <<>>]

\* str::parse::<i64>(): an optional sign, then one or more ASCII digits, within
\* the i64 range.  The value is kept as its canonical decimal numeral (what
\* Display prints), since a 14-digit timestamp exceeds the checker's integers.
ParseI64(s) ==
    LET signed == Len(s) > 0 /\ s[1] \in {"+", "-"}
        neg == Len(s) > 0 /\ s[1] = "-"
        body == IF signed THEN Tail(s) ELSE s
        mag == StripZeros(body)
        limit == IF neg THEN I64MinDigits ELSE I64MaxDigits
    IN IF Len(body) = 0 \/ \E i \in 1..Len(body) : body[i] \notin Digits
       THEN ParseErr
       ELSE IF Len(mag) > 19 \/ (Len(mag) = 19 /\ LexGreater(mag, limit))
       THEN ParseErr
       ELSE [ok |-> TRUE,
             val |-> IF neg /\ mag # <<"0">> THEN <<"-">> \o mag ELSE mag]

----------------------------------------------------------------------------
(* parse_idx_entry and read_cluster_idx                                    *)

BASE_URL == <<"https://data.commoncrawl.org">>

NoPointer ==
    [host |-> <<>>, timestamp |-> <<>>, index_file_name |-> <<>>,
     range_start |-> <<>>, range_length |-> <<>>]

IdxPanic == [tag |-> "Panic", ptr |-> NoPointer]
IdxNone == [tag |-> "None", ptr |-> NoPointer]

\* A variant that forgets host_vec.reverse().
IdxHostJoinedUnreversed(host_vec) == Join(host_vec, <<".">>)

\* Lines 251-252: host_vec.reverse(); host_vec.join(".").
IdxHostReversedJoined(host_vec) == Join(Reverse(host_vec), <<".">>)

\* A variant without the test for an IP literal.
IdxHostUnchecked(token) ==
    [some |-> TRUE,
     host |-> IdxHostReversedJoined(Split(Split(token, <<")">>)[1], <<",">>))]

\* The host of a cluster-index key token (url_time[0]): lines 243-252; none
\* when the first component is all numeric.
IdxHost(token) ==
    LET host_vec == Split(Split(token, <<")">>)[1], <<",">>)
    IN IF \A i \in 1..Len(host_vec[1]) : IsNumeric(host_vec[1][i])
       THEN [some |-> FALSE, host |-> <<>>]
       ELSE [some |-> TRUE, host |-> IdxHostReversedJoined(host_vec)]

parse_idx_entry(index_id, line) ==
    LET parts == Split(line, <<"\t">>)
    IN IF Len(parts) # 5 THEN IdxPanic                  \* assert_eq!
       ELSE
       LET url_time == Split(parts[1], <<" ">>)
       IN IF Len(url_time) < 2 THEN IdxPanic            \* url_time[1]
          ELSE
          LET timestamp == ParseI64(url_time[2])
          IN IF ~timestamp.ok THEN IdxPanic             \* unwrap
             ELSE
             LET h == IdxHost(url_time[1])
             IN IF ~h.some THEN IdxNone
                ELSE
                LET range_start == ParseI64(parts[3])
                    range_length == ParseI64(parts[4])
                IN IF ~range_start.ok \/ ~range_length.ok THEN IdxPanic
                   ELSE [tag |-> "Some",
                         ptr |-> [host |-> h.host,
                                  timestamp |-> timestamp.val,
                                  index_file_name |->
                                      BASE_URL \o <<"/cc-index/collections">>
                                      \o <<"/">> \o index_id \o <<"/indexes/">>
                                      \o parts[2],
                                  range_start |-> range_start.val,
                                  range_length |-> range_length.val]]

RECURSIVE ReadLines(_, _, _)
ReadLines(index_id, lines, acc) ==
    IF Len(lines) = 0 THEN [pc |-> "done", pointers |-> acc]
    ELSE LET r == parse_idx_entry(index_id, Head(lines))
         IN IF r.tag = "Panic" THEN [pc |-> "panic", pointers |-> <<>>]
            ELSE ReadLines(index_id, Tail(lines),
                           IF r.tag = "Some" THEN Append(acc, r.ptr) ELSE acc)

\* A variant that leaves out the lines parse_idx_entry panics on.
RECURSIVE ReadLinesSkipping(_, _, _)
ReadLinesSkipping(index_id, lines, acc) ==
    IF Len(lines) = 0 THEN [pc |-> "done", pointers |-> acc]
    ELSE LET r == parse_idx_entry(index_id, Head(lines))
         IN ReadLinesSkipping(index_id, Tail(lines),
                              IF r.tag = "Some" THEN Append(acc, r.ptr) ELSE acc)

read_cluster_idx_skipping(index_id, lines) == ReadLinesSkipping(index_id, lines, <<>>)

\* read_cluster_idx on a fetched document: the pointers of the lines that
\* decode to one, in line order; a panic in any line unwinds the call.
read_cluster_idx(index_id, lines) == ReadLines(index_id, lines, <<>>)

----------------------------------------------------------------------------
(* parse_time_string and the "%Y-%m-%d" formatting of its result           *)

RECURSIVE DigitsToInt(_, _)
DigitsToInt(s, acc) ==
    IF Len(s) = 0 THEN acc
    ELSE DigitsToInt(Tail(s), 10 * acc + DigitVal(s[1]))

IntErr == [ok |-> FALSE, val |-> 0]

\* str::parse::<i32>() / ::<u32>() of a slice of at most four characters (no
\* overflow is possible at that length): an optional sign ('-' only for the
\* signed type), then one or more ASCII digits.
ParseShortInt(s, signedType) ==
    LET hasSign == Len(s) > 0 /\ s[1] \in (IF signedType THEN {"+", "-"} ELSE {"+"})
        body == IF hasSign THEN Tail(s) ELSE s
        mag == DigitsToInt(body, 0)
    IN IF Len(body) = 0 \/ \E i \in 1..Len(body) : body[i] \notin Digits
       THEN IntErr
       ELSE [ok |-> TRUE, val |-> IF hasSign /\ s[1] = "-" THEN 0 - mag ELSE mag]

IsLeap(y) == (y % 4 = 0 /\ y % 100 # 0) \/ y % 400 = 0

DaysInMonth(y, m) ==
    IF m \in {4, 6, 9, 11} THEN 30
    ELSE IF m = 2 THEN (IF IsLeap(y) THEN 29 ELSE 28)
    ELSE 31

\* NaiveDate::from_ymd_opt(..).is_some()
ValidYmd(y, m, d) == m \in 1..12 /\ d \in 1..DaysInMonth(y, m)

TimePanic == [tag |-> "Panic", y |-> 0, m |-> 0, d |-> 0]

\* parse_time_string: the date of the first eight characters, or the clock's
\* date (Utc::now(), the argument now) when they name no calendar day; a panic
\* when a slice is out of range or does not parse.
parse_time_string(time_str, now) ==
    IF Len(time_str) < 8 THEN TimePanic
    ELSE LET year == ParseShortInt(SubSeq(time_str, 1, 4), TRUE)
             month == ParseShortInt(SubSeq(time_str, 5, 6), FALSE)
             day == ParseShortInt(SubSeq(time_str, 7, 8), FALSE)
         IN IF ~year.ok \/ ~month.ok \/ ~day.ok THEN TimePanic
            ELSE IF ValidYmd(year.val, month.val, day.val)
            THEN [tag |-> "Date", y |-> year.val, m |-> month.val, d |-> day.val]
            ELSE [tag |-> "Date", y |-> now.y, m |-> now.m, d |-> now.d]

RECURSIVE PadDigits(_, _)
\* n >= 0 in decimal, zero-padded to at least width digits.
PadDigits(n, width) ==
    IF n < 10 /\ width <= 1 THEN <<DigitChar(n)>>
    ELSE Append(PadDigits(n \div 10, width - 1), DigitChar(n % 10))

\* date.format("%Y-%m-%d").to_string()
FormatYmd(date) ==
    (IF date.y < 0 THEN <<"-">> \o PadDigits(0 - date.y, 4)
     ELSE IF date.y > 9999 THEN <<"+">> \o PadDigits(date.y, 4)
     ELSE PadDigits(date.y, 4))
    \o <<"-">> \o PadDigits(date.m, 2) \o <<"-">> \o PadDigits(date.d, 2)

----------------------------------------------------------------------------
(* retrieve_ip                                                             *)

\* The value of a canonical numeral small enough for the checker's integers.
NumVal(numeral) ==
    IF numeral[1] = "-" THEN 0 - DigitsToInt(Tail(numeral), 0)
    ELSE DigitsToInt(numeral, 0)

\* One octet of a dotted IPv4 address: 1 to 3 digits, no leading zero, <= 255.
IsOctet(s) ==
    /\ Len(s) \in 1..3
    /\ \A i \in 1..Len(s) : s[i] \in Digits
    /\ (Len(s) > 1 => s[1] # "0")
    /\ DigitsToInt(s, 0) <= 255

\* IPv6 texts the model knows, with the canonical text Display prints.
Ipv6Table ==
    { <<<<":", ":", "1">>, <<":", ":", "1">>>>,
      <<<<"0", ":", "0", ":", "0", ":", "0", ":", "0", ":", "0", ":", "0", ":", "1">>,
        <<":", ":", "1">>>> }

\* A variant that takes any text for an address.
ParseIpAddrAny(s) == [ok |-> TRUE, val |-> s]

\* str::parse::<IpAddr>(): the address, kept as the text Display prints.
ParseIpAddr(s) ==
    LET octets == Split(s, <<".">>)
    IN IF Len(octets) = 4 /\ \A i \in 1..4 : IsOctet(octets[i])
       THEN [ok |-> TRUE, val |-> s]
       ELSE IF \E p \in Ipv6Table : p[1] = s
       THEN [ok |-> TRUE, val |-> (CHOOSE p \in Ipv6Table : p[1] = s)[2]]
       ELSE ParseErr

WarcIpHeader == <<"WARC-IP-Address">>

ArchiveSpanCap == 901

NoEntry == [host |-> <<>>, timestr |-> <<>>, ip |-> <<>>]
NoRequest == [url |-> <<>>, start |-> 0, end |-> 0]

RECURSIVE ScanFragment(_, _, _, _)
\* Lines 423-441: the first header line whose value parses wins; a line that
\* cannot be read ends the scan; a header line without ": " panics ([1]).
ScanFragment(frag, i, host, timestamp_str) ==
    IF i > Len(frag) THEN [tag |-> "None", entry |-> NoEntry]
    ELSE IF ~frag[i].ok THEN [tag |-> "None", entry |-> NoEntry]
    ELSE IF StartsWith(frag[i].text, WarcIpHeader)
    THEN LET pieces == Split(frag[i].text, <<":", " ">>)
         IN IF Len(pieces) < 2 THEN [tag |-> "Panic", entry |-> NoEntry]
            ELSE LET addr == ParseIpAddr(pieces[2])
                 IN IF addr.ok
                    THEN [tag |-> "Some",
                          entry |-> [host |-> host, timestr |-> timestamp_str,
                                     ip |-> addr.val]]
                    ELSE ScanFragment(frag, i + 1, host, timestamp_str)
    ELSE ScanFragment(frag, i + 1, host, timestamp_str)

\* A variant that requests the whole record.
ArchiveSpanUncapped(length) == length

\* The span of the archive range request: min(length, 901).
ArchiveSpan(length) == IF length > ArchiveSpanCap THEN ArchiveSpanCap ELSE length

\* A variant that unwraps the answer of the archive request.
retrieve_ip_unwrapped(host, timestamp_str, index_record, rsp) ==
    IF rsp.kind # "ok"
    THEN [tag |-> "Panic", entry |-> NoEntry, sent |-> TRUE, req |-> NoRequest]
    ELSE LET r == ScanFragment(rsp.frag, 1, host, timestamp_str)
         IN [tag |-> r.tag, entry |-> r.entry, sent |-> TRUE, req |-> NoRequest]

\* retrieve_ip(host, timestamp_str, index_record) against the archive server's
\* answer rsp to its one range request.  req is the request sent (sent is
\* FALSE when the call panicked before sending).
retrieve_ip(host, timestamp_str, index_record, rsp) ==
    LET start == ParseI64(index_record.offset)
        length == ParseI64(index_record.length)
    IN IF ~start.ok \/ ~length.ok
       THEN [tag |-> "Panic", entry |-> NoEntry, sent |-> FALSE, req |-> NoRequest]
       ELSE
       LET req == [url |-> BASE_URL \o <<"/">> \o index_record.filename,
                   start |-> NumVal(start.val),
                   end |-> NumVal(start.val) + ArchiveSpan(NumVal(length.val))]
       IN IF rsp.kind # "ok"
          THEN [tag |-> "None", entry |-> NoEntry, sent |-> TRUE, req |-> req]
          ELSE LET r == ScanFragment(rsp.frag, 1, host, timestamp_str)
               IN [tag |-> r.tag, entry |-> r.entry, sent |-> TRUE, req |-> req]

----------------------------------------------------------------------------
(* query_host                                                              *)

\* A variant that takes every key of the range for the sample host's.
ShardHostOfAnyKey(token) == <<"b", ".", "a">>

\* The host of a shard line's key token (fields[0]): lines 342-348.
ShardHost(token) ==
    Join(Reverse(Split(Split(Split(token, <<")">>)[1], <<":">>)[1], <<",">>)),
         <<".">>)

\* A variant without the date test.
DateIsNewAlways(futures_times, timestamp_str) == TRUE

\* Line 359: whether the line's date is still to be fetched.
DateIsNew(futures_times, timestamp_str) == timestamp_str \notin futures_times

\* A variant that forgets to record the date.
MarkDateForgotten(futures_times, timestamp_str, result) == futures_times

\* A variant that records the date only when an entry was produced.
MarkDateIfSome(futures_times, timestamp_str, result) ==
    IF result.tag = "Some" THEN futures_times \cup {timestamp_str} ELSE futures_times

\* Line 367: the dates marked after a line was handed to retrieve_ip, whatever
\* retrieve_ip returned.
MarkDate(futures_times, timestamp_str, result) == futures_times \cup {timestamp_str}

\* The loop state of query_host.  mappings is the Vec<Option<MappingEntry>>
\* (an entry with tag "Some" or "None"); fetched, skipped and foreign log the
\* indices of the lines handed to retrieve_ip, skipped by the date test and
\* discarded as another host's; shard_reqs and arch_reqs the range requests
\* sent to the shard and to the archive files.
QInit ==
    [tag |-> "Ok", futures_times |-> {}, mappings |-> <<>>, fetched |-> <<>>,
     skipped |-> <<>>, foreign |-> <<>>, unparsed |-> <<>>, arch_reqs |-> <<>>,
     dates |-> <<>>, shard_reqs |-> <<>>]

QueryLine(pointer, line, i, st) ==
    IF ~line.ok THEN [st EXCEPT !.tag = "Panic"]                  \* line.unwrap()
    ELSE
    LET host == ShardHost(line.fields[1])
    IN IF pointer.host # host THEN [st EXCEPT !.foreign = Append(@, i)]
       ELSE IF Len(line.fields) < 2 THEN [st EXCEPT !.tag = "Panic"]  \* fields[1]
       ELSE
       LET date == parse_time_string(line.fields[2], line.now)
       IN IF date.tag = "Panic" THEN [st EXCEPT !.tag = "Panic"]
          ELSE
          LET timestamp_str == FormatYmd(date)
          IN IF ~DateIsNew(st.futures_times, timestamp_str)
             THEN [st EXCEPT !.skipped = Append(@, i),
                             !.dates = Append(@, <<i, timestamp_str>>)]
             ELSE IF ~line.json.ok
             THEN [st EXCEPT !.unparsed = Append(@, i),
                             !.dates = Append(@, <<i, timestamp_str>>)]
             ELSE
             LET r == retrieve_ip(host, timestamp_str, line.json, line.arch)
                 logged == [st EXCEPT !.fetched = Append(@, i),
                                      !.dates = Append(@, <<i, timestamp_str>>),
                                      !.arch_reqs = IF r.sent THEN Append(@, r.req)
                                                    ELSE @]
             IN IF r.tag = "Panic" THEN [logged EXCEPT !.tag = "Panic"]
                ELSE [logged EXCEPT
                        !.mappings = Append(@, [tag |-> r.tag, entry |-> r.entry]),
                        !.futures_times = MarkDate(@, timestamp_str, r)]

RECURSIVE QueryLoop(_, _, _, _)
QueryLoop(pointer, lines, i, st) ==
    IF i > Len(lines) \/ st.tag = "Panic" THEN st
    ELSE QueryLoop(pointer, lines, i + 1, QueryLine(pointer, lines[i], i, st))

\* The shard range request of query_host: lines 307-313.
ShardRequest(pointer) ==
    [url |-> pointer.index_file_name,
     start |-> NumVal(pointer.range_start),
     end |-> NumVal(pointer.range_start) + NumVal(pointer.range_length)]

\* A variant that decodes the body whatever the outcome of the request.
query_host_unchecked(pointer, rsp) ==
    QueryLoop(pointer, rsp.lines, 1,
              [QInit EXCEPT !.shard_reqs = <<ShardRequest(pointer)>>])

\* A variant that repeats a failed shard request once.
query_host_retrying(pointer, rsp) ==
    IF rsp.kind # "ok"
    THEN [QInit EXCEPT !.shard_reqs = <<ShardRequest(pointer), ShardRequest(pointer)>>]
    ELSE QueryLoop(pointer, rsp.lines, 1,
                   [QInit EXCEPT !.shard_reqs = <<ShardRequest(pointer)>>])

\* query_host(pointer) against the shard server's answer rsp to its range
\* request: [kind |-> "send_err" | "http_err" | "body_err" | "ok", lines].
\* tag "Panic" stands for the call unwinding instead of returning.
query_host(pointer, rsp) ==
    LET sent == [QInit EXCEPT !.shard_reqs = <<ShardRequest(pointer)>>]
    IN IF rsp.kind # "ok" THEN sent
       ELSE QueryLoop(pointer, rsp.lines, 1, sent)

\* into_iter().flatten() at line 527: the entries that are Some, in order.
RECURSIVE Flatten(_)
Flatten(mappings) ==
    IF Len(mappings) = 0 THEN <<>>
    ELSE IF Head(mappings).tag = "Some"
         THEN <<Head(mappings).entry>> \o Flatten(Tail(mappings))
         ELSE Flatten(Tail(mappings))

----------------------------------------------------------------------------
(* Index: the ordering of catalog entries and the choice of an index        *)

\* The characters of names in the order of their code points (str::cmp
\* compares bytes).
AsciiOrder ==
    <<" ", "0", "1", "2", "3", "4", "5", "6", "7", "8", "9",
      "A", "B", "C", "D", "E", "F", "G", "H", "I", "J", "K", "L", "M",
      "N", "O", "P", "Q", "R", "S", "T", "U", "V", "W", "X", "Y", "Z",
      "a", "b", "c", "d", "e", "f", "g", "h", "i", "j", "k", "l", "m",
      "n", "o", "p", "q", "r", "s", "t", "u", "v", "w", "x", "y", "z">>

CharCode(c) == CHOOSE i \in 1..Len(AsciiOrder) : AsciiOrder[i] = c

RECURSIVE StrCmp(_, _)
\* str::cmp: lexicographic by code point, a proper prefix being less.
StrCmp(a, b) ==
    IF Len(a) = 0 /\ Len(b) = 0 THEN "Equal"
    ELSE IF Len(a) = 0 THEN "Less"
    ELSE IF Len(b) = 0 THEN "Greater"
    ELSE IF a[1] # b[1]
         THEN (IF CharCode(a[1]) < CharCode(b[1]) THEN "Less" ELSE "Greater")
    ELSE StrCmp(Tail(a), Tail(b))

\* The month names %B reads.
MonthNames ==
    << <<"J", "a", "n", "u", "a", "r", "y">>,
       <<"F", "e", "b", "r", "u", "a", "r", "y">>,
       <<"M", "a", "r", "c", "h">>,
       <<"A", "p", "r", "i", "l">>,
       <<"M", "a", "y">>,
       <<"J", "u", "n", "e">>,
       <<"J", "u", "l", "y">>,
       <<"A", "u", "g", "u", "s", "t">>,
       <<"S", "e", "p", "t", "e", "m", "b", "e", "r">>,
       <<"O", "c", "t", "o", "b", "e", "r">>,
       <<"N", "o", "v", "e", "m", "b", "e", "r">>,
       <<"D", "e", "c", "e", "m", "b", "e", "r">> >>

MonthOf(word) ==
    IF \E m \in 1..12 : MonthNames[m] = word
    THEN CHOOSE m \in 1..12 : MonthNames[m] = word
    ELSE 0

IndexWord == <<"I", "n", "d", "e", "x">>

\* A field the format string does not set.
NoField == 0

NoParsed == [ok |-> FALSE, year |-> NoField, month |-> NoField, day |-> NoField]

\* The fields the format "%B %Y Index" reads from a name: a month name, a
\* year, the word Index.  The format has no item that sets the day.
ScanMonthYearIndex(name) ==
    LET w == Split(name, <<" ">>)
    IN IF /\ Len(w) = 3
          /\ MonthOf(w[1]) # 0
          /\ Len(w[2]) \in 1..4 /\ \A i \in 1..Len(w[2]) : w[2][i] \in Digits
          /\ w[3] = IndexWord
       THEN [ok |-> TRUE, year |-> DigitsToInt(w[2], 0), month |-> MonthOf(w[1]),
             day |-> NoField]
       ELSE NoParsed

DateErr == [ok |-> FALSE, y |-> 0, m |-> 0, d |-> 0]

\* Parsed::to_naive_date: a date needs the year, the month and the day; with a
\* field missing the result is Err(NotEnough).
ParsedToNaiveDate(p) ==
    IF p.year = NoField \/ p.month = NoField \/ p.day = NoField THEN DateErr
    ELSE IF ValidYmd(p.year, p.month, p.day)
         THEN [ok |-> TRUE, y |-> p.year, m |-> p.month, d |-> p.day]
         ELSE DateErr

\* NaiveDate::parse_from_str(name, "%B %Y Index")
NaiveDateParseFromStr(name) ==
    LET p == ScanMonthYearIndex(name)
    IN IF p.ok THEN ParsedToNaiveDate(p) ELSE DateErr

\* NaiveDate::cmp
DateCmp(d1, d2) ==
    LET a == (d1.y * 12 + d1.m) * 32 + d1.d
        b == (d2.y * 12 + d2.m) * 32 + d2.d
    IN IF a < b THEN "Less" ELSE IF a > b THEN "Greater" ELSE "Equal"

\* impl Ord for Index: cmp
IndexCmp(self, other) ==
    LET d1 == NaiveDateParseFromStr(self.name)
        d2 == NaiveDateParseFromStr(other.name)
    IN IF d1.ok /\ d2.ok THEN DateCmp(d1, d2)
       ELSE StrCmp(self.name, other.name)

\* impl PartialEq for Index: eq
IndexEq(self, other) == self.id = other.id

RECURSIVE InsertSorted(_, _)
\* x is placed after every element that is not greater than it (the sort is
\* stable).
InsertSorted(sorted, x) ==
    IF Len(sorted) = 0 THEN <<x>>
    ELSE IF IndexCmp(x, Head(sorted)) = "Less" THEN <<x>> \o sorted
    ELSE <<Head(sorted)>> \o InsertSorted(Tail(sorted), x)

RECURSIVE SortIndices(_)
\* slice::sort: ascending by cmp, equal elements in their input order.
SortIndices(indices) ==
    IF Len(indices) = 0 THEN <<>>
    ELSE InsertSorted(SortIndices(SubSeq(indices, 1, Len(indices) - 1)),
                      indices[Len(indices)])

NoIndex == [id |-> <<>>, name |-> <<>>]
NoCatOut == [sorted |-> <<>>, selected |-> NoIndex]

\* get_newest_index on the catalog retrieve_indices returned: sort, then
\* indices[0]; indexing an empty Vec panics.
get_newest_index(indices) ==
    LET sorted == SortIndices(indices)
    IN IF Len(sorted) = 0 THEN [tag |-> "Panic", sorted |-> sorted, selected |-> NoIndex]
       ELSE [tag |-> "Ok", sorted |-> sorted, selected |-> sorted[1]]

----------------------------------------------------------------------------
(* Bounded inputs                                                          *)

MaxKeyLen == 4
MaxDocLines == 2
MaxShardLines == 3

\* All sequences over alphabet of length at most n.
RECURSIVE SeqsUpTo(_, _)
SeqsUpTo(alphabet, n) ==
    IF n = 0 THEN {<<>>}
    ELSE LET shorter == SeqsUpTo(alphabet, n - 1)
         IN shorter \cup {Append(s, c) : s \in shorter, c \in alphabet}

IndexId == <<"CC-MAIN-2020-50">>

Ts20201126 == <<"2","0","2","0","1","1","2","6","2","0","1","1","4","2">>
Ts20201126Late == <<"2","0","2","0","1","1","2","6","2","3","5","9","5","9">>
Ts20201127 == <<"2","0","2","0","1","1","2","7","0","0","0","0","0","0">>
TsMonth13 == <<"2","0","2","0","1","3","0","1","0","0","0","0","0","0">>
TsShort == <<"2","0","2","0">>

Tab == <<"\t">>

\* What follows the key in a cluster-index line.
TailGood ==
    <<")", "/", " ">> \o Ts20201126 \o Tab \o <<"c">> \o Tab \o <<"2">> \o Tab
    \o <<"7">> \o Tab \o <<"1">>
\* The same with another range: start 3, length 4.
TailOffset ==
    <<")", "/", " ">> \o Ts20201126 \o Tab \o <<"c">> \o Tab \o <<"3">> \o Tab
    \o <<"4">> \o Tab \o <<"1">>
TailFourFields ==
    <<")", "/", " ">> \o Ts20201126 \o Tab \o <<"c">> \o Tab \o <<"0">> \o Tab \o <<"7">>
TailBadTimestamp ==
    <<")", "/", " ", "x">> \o Tab \o <<"c">> \o Tab \o <<"0">> \o Tab \o <<"7">>
    \o Tab \o <<"1">>
TailNoTimestamp ==
    <<")", "/">> \o Tab \o <<"c">> \o Tab \o <<"0">> \o Tab \o <<"7">> \o Tab \o <<"1">>
TailBadRange ==
    <<")", "/", " ">> \o Ts20201126 \o Tab \o <<"c">> \o Tab \o <<"x">> \o Tab
    \o <<"7">> \o Tab \o <<"1">>

IdxTails == {TailGood, TailFourFields, TailBadTimestamp, TailNoTimestamp, TailBadRange}

KeyAlphabet == {"a", "1", ",", ":", ".", SuperscriptTwo}

IdxKeys == SeqsUpTo(KeyAlphabet, MaxKeyLen)

\* The example line of the doc comment at line 237.
ExampleLine ==
    <<"0", ",", "1", "0", "2", ",", "1", "2", "6", ",", "1", "3", ":", "7", "0",
      "3", "7", ")", "/", "r", "o", "b", "o", "t", "s", ".", "t", "x", "t", " ">>
    \o Ts20201126 \o Tab
    \o <<"c", "d", "x", "-", "0", "0", "0", "0", "0", ".", "g", "z">> \o Tab
    \o <<"0">> \o Tab \o <<"2", "0", "5", "5", "0", "5">> \o Tab \o <<"1">>

\* The same line for a key whose first component is a name.
ExampleNameLine ==
    <<"c", "o", "m", ",", "e", "x", "a", "m", "p", "l", "e", ":", "7", "0",
      "3", "7", ")", "/", "r", "o", "b", "o", "t", "s", ".", "t", "x", "t", " ">>
    \o Ts20201126 \o Tab
    \o <<"c", "d", "x", "-", "0", "0", "0", "0", "0", ".", "g", "z">> \o Tab
    \o <<"0">> \o Tab \o <<"2", "0", "5", "5", "0", "5">> \o Tab \o <<"1">>

LineAB == <<"a", ",", "b">> \o TailGood
LineABPort == <<"a", ",", "b", ":", "8">> \o TailOffset
LineAC == <<"a", ",", "c">> \o TailGood
LineIpLiteral == <<"1", ",", "2">> \o TailGood
LineMalformed == <<"a", ",", "b">> \o TailFourFields
LineSixFields == LineAB \o Tab \o <<"x">>

SampleLines == {ExampleLine, ExampleNameLine, LineAB, LineIpLiteral, LineMalformed}

IdxDocs ==
    {<<k \o t>> : k \in IdxKeys, t \in IdxTails}
    \cup SeqsUpTo(SampleLines, MaxDocLines)

----------------------------------------------------------------------------
(* SpecIdx: read_cluster_idx applied to a bounded document                 *)

QIdle == [pointer |-> NoPointer, rsp |-> [kind |-> "send_err", lines |-> <<>>]]

\* The pipeline before crawl_host_ip_mapping is entered.
PipeOff ==
    /\ pc = "off"
    /\ tasks = <<>> /\ res = <<>> /\ workers = <<>>
    /\ chan = <<>> /\ chanPb = <<>> /\ sendersLive = FALSE
    /\ wpc = "off" /\ wbuf = <<>> /\ file = <<>> /\ sinkOk = TRUE
    /\ pb = [pos |-> 0, msg |-> <<>>]
    /\ arrived = <<>> /\ pbSent = <<>>

CatOff == catalog = <<>> /\ catPc = "off" /\ catOut = NoCatOut

IdxOff == idxDoc = <<>> /\ idxPc = "idle" /\ pointers = <<>>

InitIdx ==
    /\ idxDoc \in IdxDocs
    /\ idxPc = "start"
    /\ pointers = <<>>
    /\ qIn = QIdle
    /\ qPc = "idle"
    /\ qOut = QInit
    /\ PipeOff
    /\ CatOff

DoReadClusterIdx ==
    /\ idxPc = "start"
    /\ LET r == read_cluster_idx(IndexId, idxDoc)
       IN /\ idxPc' = r.pc
          /\ pointers' = r.pointers
    /\ UNCHANGED <<catVars, idxDoc, qVars, pipeVars>>

NextIdx == DoReadClusterIdx

SpecIdx == InitIdx /\ [][NextIdx]_vars

----------------------------------------------------------------------------
(* SpecResolve: query_host applied to a bounded shard answer               *)

Range(f) == {f[i] : i \in DOMAIN f}

Ip1 == <<"1", ".", "2", ".", "3", ".", "4">>
Ip2 == <<"5", ".", "6", ".", "7", ".", "8">>

HeaderLine(value) == [ok |-> TRUE, text |-> WarcIpHeader \o <<":", " ">> \o value]
OtherHeaderLine == [ok |-> TRUE, text |-> <<"WARC-Type", ":", " ", "r">>]

ArchHttpErr == [kind |-> "http_err", frag |-> <<>>]
ArchSendErr == [kind |-> "send_err", frag |-> <<>>]
ArchNoHeader == [kind |-> "ok", frag |-> <<OtherHeaderLine>>]
ArchBadIp == [kind |-> "ok", frag |-> <<HeaderLine(<<"x">>)>>]
ArchIp1 == [kind |-> "ok", frag |-> <<OtherHeaderLine, HeaderLine(Ip1)>>]
ArchIp2 == [kind |-> "ok", frag |-> <<HeaderLine(Ip2)>>]

JsonBad == [ok |-> FALSE, filename |-> <<>>, offset |-> <<>>, length |-> <<>>]
JsonRec == [ok |-> TRUE, filename |-> <<"f.warc.gz">>, offset |-> <<"5">>,
            length |-> <<"9">>]
\* Records as long as the cap of the archive span, and longer.
JsonAtCap == [JsonRec EXCEPT !.length = <<"9", "0", "1">>]
JsonLong == [JsonRec EXCEPT !.length = <<"9", "0", "2">>]

Now1 == [y |-> 2020, m |-> 11, d |-> 27]
Now2 == [y |-> 2026, m |-> 11, d |-> 3]
NowDates == {Now1, Now2}

KeyAB == <<"a", ",", "b", ")", "/">>
KeyABPort == <<"a", ",", "b", ":", "8", ")", "/">>
KeyAC == <<"a", ",", "c", ")", "/">>

ShardLine(key, ts, json, arch, now) ==
    [ok |-> TRUE, fields |-> <<key, ts>>, json |-> json, arch |-> arch, now |-> now]

\* A line the decoder fails on (lines() yields Err).
LineReadErr ==
    [ok |-> FALSE, fields |-> <<<<>>>>, json |-> JsonBad, arch |-> ArchHttpErr,
     now |-> Now1]
\* A line without a space: fields has one element.
LineNoTimestamp ==
    [ok |-> TRUE, fields |-> <<KeyAB>>, json |-> JsonBad, arch |-> ArchHttpErr,
     now |-> Now1]

ShardLines ==
    {ShardLine(KeyAB, Ts20201126, JsonBad, ArchHttpErr, Now1)}
    \cup {ShardLine(KeyAB, Ts20201126, JsonRec, a, Now1) :
            a \in {ArchHttpErr, ArchNoHeader, ArchBadIp, ArchIp1, ArchIp2}}
    \cup {ShardLine(KeyAB, Ts20201126Late, JsonRec, ArchIp2, Now1)}
    \cup {ShardLine(KeyAB, Ts20201127, JsonBad, ArchHttpErr, Now1),
          ShardLine(KeyAB, Ts20201127, JsonRec, ArchSendErr, Now1),
          ShardLine(KeyAB, Ts20201127, JsonRec, ArchIp1, Now1)}
    \cup {ShardLine(KeyAB, TsMonth13, JsonRec, ArchIp1, n) : n \in NowDates}
    \cup {ShardLine(KeyAB, TsShort, JsonRec, ArchIp1, Now1)}
    \cup {ShardLine(KeyABPort, Ts20201127, JsonRec, ArchIp2, Now1)}
    \cup {ShardLine(KeyAC, Ts20201126, JsonRec, ArchIp1, Now1)}
    \cup {ShardLine(KeyAB, Ts20201126, JsonAtCap, ArchIp1, Now1),
          ShardLine(KeyAB, Ts20201127, JsonLong, ArchIp2, Now1)}
    \cup {LineReadErr, LineNoTimestamp}

\* A failed shard request: no response, an error status (whose body is an
\* error page, no gzip stream), or a body that cannot be read.
ShardFailures ==
    {[kind |-> "send_err", lines |-> <<>>],
     [kind |-> "http_err", lines |-> <<LineReadErr>>],
     [kind |-> "body_err", lines |-> <<>>]}

ShardRsps ==
    ShardFailures
    \cup {[kind |-> "ok", lines |-> l] : l \in SeqsUpTo(ShardLines, MaxShardLines)}

SamplePointers == Range(read_cluster_idx(IndexId, <<LineAB, LineABPort>>).pointers)

InitResolve ==
    /\ idxDoc = <<>>
    /\ idxPc = "idle"
    /\ pointers = <<>>
    /\ qIn \in [pointer : SamplePointers, rsp : ShardRsps]
    /\ qPc = "start"
    /\ qOut = QInit
    /\ PipeOff
    /\ CatOff

DoQueryHost ==
    /\ qPc = "start"
    /\ qOut' = query_host(qIn.pointer, qIn.rsp)
    /\ qPc' = "done"
    /\ UNCHANGED <<catVars, qIn, idxVars, pipeVars>>

NextResolve == DoQueryHost

SpecResolve == InitResolve /\ [][NextResolve]_vars

----------------------------------------------------------------------------
(* SpecFragment: query_host on a shard of one line of the pointer's host,  *)
(* the archive server answering with a bounded fragment                    *)

MaxFragLines == 3

Ip3 == <<"2", "0", "3", ".", "0", ".", "1", "1", "3", ".", "5">>
Ip6Long == <<"0", ":", "0", ":", "0", ":", "0", ":", "0", ":", "0", ":", "0", ":", "1">>

\* A line of the fragment the decoder fails on.
FragReadErr == [ok |-> FALSE, text |-> <<>>]
\* A header line without the ": " that separates the value.
HeaderNoSeparator == [ok |-> TRUE, text |-> WarcIpHeader]

FragLines ==
    {OtherHeaderLine, HeaderLine(Ip1), HeaderLine(Ip3), HeaderLine(Ip6Long),
     HeaderLine(<<"x">>), HeaderLine(<<"0", "1", ".", "2", ".", "3", ".", "4">>),
     FragReadErr, HeaderNoSeparator}

Fragments == SeqsUpTo(FragLines, MaxFragLines)

InitFragment ==
    /\ IdxOff
    /\ qIn \in [pointer : {parse_idx_entry(IndexId, LineAB).ptr},
                rsp : {[kind |-> "ok",
                        lines |-> <<ShardLine(KeyAB, Ts20201126, JsonRec,
                                              [kind |-> "ok", frag |-> f], Now1)>>] :
                       f \in Fragments}]
    /\ qPc = "start"
    /\ qOut = QInit
    /\ PipeOff
    /\ CatOff

SpecFragment == InitFragment /\ [][NextResolve]_vars

----------------------------------------------------------------------------
(* SpecIndex: the choice of an index from a bounded catalog                *)

MaxCatalog == 3

IndexNameOf(month, year) == MonthNames[month] \o <<" ">> \o year \o <<" ">> \o IndexWord

Year2020 == <<"2", "0", "2", "0">>
Year2021 == <<"2", "0", "2", "1">>

March2020 == [id |-> <<"CC-MAIN-2020-16">>, name |-> IndexNameOf(3, Year2020)]
November2020 == [id |-> <<"CC-MAIN-2020-50">>, name |-> IndexNameOf(11, Year2020)]
January2021 == [id |-> <<"CC-MAIN-2021-04">>, name |-> IndexNameOf(1, Year2021)]
April2021 == [id |-> <<"CC-MAIN-2021-17">>, name |-> IndexNameOf(4, Year2021)]
SpecialIndex ==
    [id |-> <<"CC-MAIN-2009-2010">>,
     name |-> <<"S", "p", "e", "c", "i", "a", "l", " ">> \o IndexWord]

\* A second record of the id CC-MAIN-2020-50, under another display name.
November2020Crawl ==
    [id |-> <<"CC-MAIN-2020-50">>,
     name |-> MonthNames[11] \o <<" ">> \o Year2020
              \o <<" ", "C", "r", "a", "w", "l">>]

SampleIndices ==
    {March2020, November2020, January2021, April2021, SpecialIndex,
     November2020Crawl}

Catalogs == SeqsUpTo(SampleIndices, MaxCatalog)

InitIndex ==
    /\ catalog \in Catalogs
    /\ catPc = "start"
    /\ catOut = NoCatOut
    /\ IdxOff
    /\ qIn = QIdle /\ qPc = "idle" /\ qOut = QInit
    /\ PipeOff

\* get_newest_index() on the catalog.
DoGetNewestIndex ==
    /\ catPc = "start"
    /\ LET r == get_newest_index(catalog)
       IN /\ catPc' = IF r.tag = "Panic" THEN "panic" ELSE "lib_done"
          /\ catOut' = [sorted |-> r.sorted, selected |-> r.selected]
    /\ UNCHANGED <<catalog, idxVars, qVars, pipeVars>>

\* main without --index-id: index_list.sort(), then index_list[0].
MainSelectDefault ==
    /\ catPc = "start"
    /\ LET sorted == SortIndices(catalog)
       IN IF Len(sorted) = 0
          THEN catPc' = "panic" /\ catOut' = [sorted |-> sorted, selected |-> NoIndex]
          ELSE catPc' = "main_done"
               /\ catOut' = [sorted |-> sorted, selected |-> sorted[1]]
    /\ UNCHANGED <<catalog, idxVars, qVars, pipeVars>>

NextIndex == DoGetNewestIndex \/ MainSelectDefault

SpecIndex == InitIndex /\ [][NextIndex]_vars

----------------------------------------------------------------------------
(* Spec: the program from crawl_host_ip_mapping on.  The main thread reads  *)
(* the cluster index, spawns the writer and progress threads, runs the     *)
(* rayon pool over the pointers and joins the writer.                      *)

NumWorkers == 2
BufLines == 2

PipeDocs ==
    SeqsUpTo({LineAB, LineAC, LineIpLiteral, LineMalformed, LineSixFields}, MaxDocLines)

\* The reversed-domain key token under which a host's shard lines are filed.
OwnKey(host) == Join(Reverse(Split(host, <<".">>)), <<",">>) \o <<")", "/">>

KeyNeighbour == <<"a", ",", "z", ")", "/">>

\* The shard server's possible answers to the range request of a pointer.
PipeRsps(pointer) ==
    LET key == OwnKey(pointer.host)
    IN ShardFailures
       \cup {[kind |-> "ok", lines |-> l] : l \in
              { <<ShardLine(key, Ts20201126, JsonRec, ArchIp1, Now1),
                  ShardLine(KeyNeighbour, Ts20201126, JsonRec, ArchIp2, Now1),
                  ShardLine(key, Ts20201126Late, JsonRec, ArchIp2, Now1),
                  ShardLine(key, Ts20201127, JsonRec, ArchIp2, Now1)>>,
                <<ShardLine(key, Ts20201126, JsonRec, ArchHttpErr, Now1),
                  ShardLine(key, Ts20201127, JsonRec, ArchIp1, Now1)>>,
                <<ShardLine(key, Ts20201126, JsonRec, ArchIp1, Now1), LineReadErr>> }}

\* writeln!(writer, "{},{},{}", item.host, item.timestr, item.ip)
CsvLine(item) == item.host \o <<",">> \o item.timestr \o <<",">> \o item.ip

\* A variant that hands a line that does not fit to the file past the lines
\* still buffered.
BufWritePastBuffer(buf, f, line) ==
    IF Len(buf) + 1 > BufLines
    THEN [buf |-> buf, file |-> Append(f, line)]
    ELSE [buf |-> Append(buf, line), file |-> f]

\* BufWriter::write of one line, the buffer holding at most BufLines lines
\* (128 KiB in the code): the buffer is flushed first when the line does not
\* fit, and a line as large as the buffer goes to the file directly.
BufWrite(buf, f, line) ==
    IF Len(buf) + 1 > BufLines
    THEN IF 1 >= BufLines
         THEN [buf |-> <<>>, file |-> (f \o buf) \o <<line>>]
         ELSE [buf |-> <<line>>, file |-> f \o buf]
    ELSE [buf |-> Append(buf, line), file |-> f]

\* A variant that drops the writer without flushing it.
BufDropUnflushed(buf, f) == f

\* Dropping the BufWriter at the end of the writer closure flushes it.
BufDrop(buf, f) == f \o buf

\* A variant that does not wait for the writer thread.
JoinReadyAlways == TRUE

\* writer_thread.join() returns once the writer thread has ended.
JoinReady == wpc \in {"done", "dead"}

NoResult == [kind |-> "none", out |-> QInit]

Init ==
    /\ idxDoc \in PipeDocs
    /\ idxPc = "start"
    /\ pointers = <<>>
    /\ qIn = QIdle /\ qPc = "idle" /\ qOut = QInit
    /\ pc = "start"
    /\ tasks = <<>> /\ res = <<>> /\ workers = <<>>
    /\ chan = <<>> /\ chanPb = <<>> /\ sendersLive = FALSE
    /\ wpc = "off" /\ wbuf = <<>> /\ file = <<>> /\ sinkOk = TRUE
    /\ pb = [pos |-> 0, msg |-> <<>>]
    /\ arrived = <<>> /\ pbSent = <<>>
    /\ CatOff

\* Lines 485-521: read_cluster_idx, the two channels, the two threads.  A
\* panic in read_cluster_idx ends the program before anything is spawned.
MainRead ==
    /\ pc = "start"
    /\ LET r == read_cluster_idx(IndexId, idxDoc)
       IN /\ idxPc' = r.pc
          /\ pointers' = r.pointers
          /\ IF r.pc = "panic"
             THEN /\ pc' = "aborted"
                  /\ UNCHANGED <<tasks, res, workers, sendersLive, wpc>>
             ELSE /\ pc' = "pool"
                  /\ tasks' = [i \in 1..Len(r.pointers) |-> "pending"]
                  /\ res' = [i \in 1..Len(r.pointers) |-> NoResult]
                  /\ workers' = [i \in 1..Len(r.pointers) |-> <<>>]
                  /\ sendersLive' = TRUE
                  /\ wpc' = "init"
    /\ UNCHANGED <<catVars, idxDoc, qVars, chan, chanPb, wbuf, file, sinkOk, pb,
                   arrived, pbSent>>

Running == pc \in {"pool", "join", "unwinding"}

\* Line 493: get_writer creates the output file; when File::create fails it
\* panics (line 447), the writer thread dies and its receiver is dropped with
\* what the channel holds.
WriterOpen ==
    /\ Running /\ wpc = "init"
    /\ IF sinkOk
       THEN wpc' = "loop" /\ file' = <<>> /\ UNCHANGED chan
       ELSE wpc' = "dead" /\ chan' = <<>> /\ UNCHANGED file
    /\ UNCHANGED <<catVars, idxVars, qVars, pc, poolVars, chanPb, sendersLive, arrived,
                   pbSent, wbuf, sinkOk, pb>>

\* Lines 494-496: one item of receiver.iter() is written.  The write reaches
\* the file only when the buffer is flushed; when the file then refuses it,
\* writeln! returns Err, the unwrap panics and the writer thread dies: the
\* BufWriter is dropped with its lines (its flush on drop fails as well) and
\* the receiver with what the channel holds.
WriterRecv ==
    /\ Running /\ wpc = "loop" /\ chan # <<>>
    /\ LET w == BufWrite(wbuf, file, CsvLine(Head(chan)))
       IN IF w.file # file /\ ~sinkOk
          THEN wpc' = "dead" /\ wbuf' = <<>> /\ chan' = <<>> /\ UNCHANGED file
          ELSE wbuf' = w.buf /\ file' = w.file /\ chan' = Tail(chan)
                 /\ UNCHANGED wpc
    /\ UNCHANGED <<catVars, idxVars, qVars, pc, poolVars, chanPb, sendersLive, arrived,
                   pbSent, sinkOk, pb>>

\* Line 497: receiver.iter() ends when the channel is empty and every sender is
\* gone; the closure returns and drops the writer.  The drop of a BufWriter
\* flushes it and ignores the error when the file refuses the lines.
WriterClose ==
    /\ Running /\ wpc = "loop" /\ chan = <<>> /\ ~sendersLive
    /\ file' = IF sinkOk THEN BufDrop(wbuf, file) ELSE file
    /\ wbuf' = <<>>
    /\ wpc' = "done"
    /\ UNCHANGED <<catVars, idxVars, qVars, pc, poolVars, chanVars, sinkOk, pb>>

\* Lines 507-510: the progress thread takes one host.
ProgressRecv ==
    /\ Running /\ chanPb # <<>>
    /\ pb' = [pos |-> pb.pos + 1, msg |-> Head(chanPb)]
    /\ chanPb' = Tail(chanPb)
    /\ UNCHANGED <<catVars, idxVars, qVars, pc, poolVars, chan, sendersLive, arrived, pbSent,
                   writerVars>>

\* The closures running at one time, one per pool thread that is busy.
Busy == {i \in DOMAIN tasks : tasks[i] = "running"}

\* Line 527: a free rayon thread takes a pointer and calls query_host on it;
\* the shard and archive servers answer as they will.  A panic inside
\* query_host unwinds the closure; rayon keeps the panic until for_each_with
\* ends.
WorkerResolve(i) ==
    /\ pc = "pool" /\ i \in DOMAIN tasks /\ tasks[i] = "pending"
    /\ Cardinality(Busy) < NumWorkers
    /\ \E rsp \in PipeRsps(pointers[i]) :
         LET out == query_host(pointers[i], rsp)
         IN /\ res' = [res EXCEPT ![i] = [kind |-> rsp.kind, out |-> out]]
            /\ IF out.tag = "Panic"
               THEN /\ tasks' = [tasks EXCEPT ![i] = "panicked"]
                    /\ UNCHANGED workers
               ELSE /\ tasks' = [tasks EXCEPT ![i] = "running"]
                    /\ workers' = [workers EXCEPT ![i] = Flatten(out.mappings)]
    /\ UNCHANGED <<catVars, idxVars, qVars, pc, chanVars, writerVars, pb>>

\* Line 528: s1.send(mapping.clone()).unwrap(); the send fails, and the unwrap
\* panics, once the receiver is gone.
WorkerSend(i) ==
    /\ pc = "pool" /\ i \in DOMAIN tasks /\ tasks[i] = "running"
    /\ workers[i] # <<>>
    /\ IF wpc = "dead"
       THEN /\ tasks' = [tasks EXCEPT ![i] = "panicked"]
            /\ workers' = [workers EXCEPT ![i] = <<>>]
            /\ UNCHANGED <<chan, arrived>>
       ELSE /\ chan' = Append(chan, Head(workers[i]))
            /\ arrived' = Append(arrived, Head(workers[i]))
            /\ workers' = [workers EXCEPT ![i] = Tail(@)]
            /\ UNCHANGED tasks
    /\ UNCHANGED <<catVars, idxVars, qVars, pc, res, chanPb, sendersLive, pbSent, writerVars, pb>>

\* Line 530: s2.send(x.host.to_owned()).unwrap(), after the last entry.
WorkerProgress(i) ==
    /\ pc = "pool" /\ i \in DOMAIN tasks /\ tasks[i] = "running"
    /\ workers[i] = <<>>
    /\ chanPb' = Append(chanPb, pointers[i].host)
    /\ pbSent' = Append(pbSent, pointers[i].host)
    /\ tasks' = [tasks EXCEPT ![i] = "done"]
    /\ UNCHANGED <<catVars, idxVars, qVars, pc, res, workers, chan, sendersLive, arrived,
                   writerVars, pb>>

\* Line 531: for_each_with ends when no closure is running and every pointer
\* has been worked on; after a panic the pointers left in the panicking job's
\* share of the list may be left out.  The senders are dropped, and a panic of
\* a closure is resumed in the caller.
PoolEnd ==
    /\ pc = "pool"
    /\ Busy = {}
    /\ \/ \A i \in DOMAIN tasks : tasks[i] \in {"done", "panicked"}
       \/ \E i \in DOMAIN tasks : tasks[i] = "panicked"
    /\ sendersLive' = FALSE
    /\ pc' = IF \E i \in DOMAIN tasks : tasks[i] = "panicked"
             THEN "unwinding" ELSE "join"
    /\ UNCHANGED <<catVars, idxVars, qVars, poolVars, chan, chanPb, arrived, pbSent,
                   writerVars, pb>>

\* Line 534: writer_thread.join().unwrap()
MainJoin ==
    /\ pc = "join" /\ JoinReady
    /\ pc' = IF wpc = "dead" THEN "aborted" ELSE "returned"
    /\ UNCHANGED <<catVars, idxVars, qVars, poolVars, chanVars, writerVars, pb>>

\* The panic leaves main (main.rs:144): the process ends, and with it the
\* writer and progress threads, wherever they are.
ProcessExit ==
    /\ pc = "unwinding"
    /\ pc' = "aborted"
    /\ UNCHANGED <<catVars, idxVars, qVars, poolVars, chanVars, writerVars, pb>>

Next ==
    \/ MainRead
    \/ WriterOpen
    \/ WriterRecv
    \/ WriterClose
    \/ ProgressRecv
    \/ \E i \in 1..MaxDocLines : WorkerResolve(i)
    \/ \E i \in 1..MaxDocLines : WorkerSend(i)
    \/ \E i \in 1..MaxDocLines : WorkerProgress(i)
    \/ PoolEnd
    \/ MainJoin
    \/ ProcessExit

Spec == Init /\ [][Next]_vars

----------------------------------------------------------------------------
(* SpecSink: the same program writing to an output file that may fail      *)

\* The output file stops taking data (the path cannot be created, the disk
\* is full, the device fails) while the writer thread has it to open or to
\* write.
SinkFails ==
    /\ Running /\ wpc \in {"init", "loop"} /\ sinkOk
    /\ sinkOk' = FALSE
    /\ UNCHANGED <<catVars, idxVars, qVars, pc, poolVars, chanVars, wpc, wbuf, file, pb>>

NextSink == Next \/ SinkFails

SpecSink == Init /\ [][NextSink]_vars

----------------------------------------------------------------------------
(* Properties of query_host (under SpecResolve)                            *)

\* The entries the finished call emits, in order.
Emitted == Flatten(qOut.mappings)

\* The lines of the call's shard answer.
QLines == qIn.rsp.lines

\* The lines whose date the call computed, and that date.
Reached == {p[1] : p \in Range(qOut.dates)}
DateOf(i) == (CHOOSE p \in Range(qOut.dates) : p[1] = i)[2]

\* C1: one call of query_host emits at most one MappingEntry per date: no two
\* emitted entries of the same call carry the same date string.
C1_OneEntryPerDate ==
    qPc = "done" =>
        \A i, j \in 1..Len(Emitted) :
            i # j => Emitted[i].timestr # Emitted[j].timestr

\* C1 witness: a call that returned an entry and skipped a later line of the
\* same date whose archive fragment also carries an address.
C1_Witness ==
    /\ qPc = "done" /\ qOut.tag = "Ok"
    /\ \E k \in 1..Len(qOut.mappings), i \in Range(qOut.skipped) :
         /\ qOut.mappings[k].tag = "Some"
         /\ qOut.mappings[k].entry.timestr = DateOf(i)
         /\ QLines[i].json.ok /\ QLines[i].arch \in {ArchIp1, ArchIp2}

\* Whether a MappingEntry for date d was produced from a line before line i.
EntryProducedBefore(i, d) ==
    \E k \in 1..Len(qOut.mappings) :
        /\ qOut.fetched[k] < i
        /\ qOut.mappings[k].tag = "Some"
        /\ qOut.mappings[k].entry.timestr = d

\* Whether a line before line i with date d was handed to the archive fetch.
FetchedBefore(i, d) ==
    \E k \in 1..Len(qOut.fetched) :
        qOut.fetched[k] < i /\ DateOf(qOut.fetched[k]) = d

\* C2 as stated: a line of the locator's host with date D is skipped exactly
\* when a MappingEntry for D was produced earlier in the call.
C2_SkippedIffEntryProduced ==
    qPc = "done" =>
        \A i \in Reached :
            (i \in Range(qOut.skipped)) <=> EntryProducedBefore(i, DateOf(i))

\* C2 amended: a line of the locator's host with date D is skipped exactly when
\* an earlier line of date D was handed to the archive fetch, whether or not
\* that fetch produced an entry; a line that is not skipped goes through JSON
\* parsing and, if its JSON parses, the archive fetch.
C2_SkippedIffFetchedBefore ==
    qPc = "done" =>
        \A i \in Reached :
            /\ (i \in Range(qOut.skipped)) <=> FetchedBefore(i, DateOf(i))
            /\ i \notin Range(qOut.skipped) =>
                 IF QLines[i].json.ok THEN i \in Range(qOut.fetched)
                 ELSE i \in Range(qOut.unparsed)

\* C2 witness: a line was skipped although the earlier fetch for its date
\* produced no entry.
C2_Witness ==
    /\ qPc = "done" /\ qOut.tag = "Ok"
    /\ \E i \in Range(qOut.skipped) :
         /\ ~EntryProducedBefore(i, DateOf(i))
         /\ QLines[i].json.ok /\ QLines[i].arch \in {ArchIp1, ArchIp2}

\* The first line, in shard-line order, of the locator's host with date d
\* whose JSON parses.
FirstCandidate(d) ==
    CHOOSE i \in Reached :
        /\ DateOf(i) = d /\ QLines[i].json.ok
        /\ \A j \in Reached : (DateOf(j) = d /\ QLines[j].json.ok) => i <= j

\* The address the first header line with a parsable value carries.
RECURSIVE FirstAddress(_)
FirstAddress(frag) ==
    LET pieces == Split(Head(frag).text, <<":", " ">>)
    IN IF StartsWith(Head(frag).text, WarcIpHeader) /\ ParseIpAddr(pieces[2]).ok
       THEN ParseIpAddr(pieces[2]).val
       ELSE FirstAddress(Tail(frag))

\* C3: first one wins: an emitted entry for day D carries the IP recovered from
\* the first line that matches the host, has date D and whose JSON parses; no
\* later line of the same day replaces it or adds another entry.
C3_FirstOneWins ==
    qPc = "done" =>
        \A k \in 1..Len(qOut.mappings) :
            qOut.mappings[k].tag = "Some" =>
                LET d == qOut.mappings[k].entry.timestr
                    first == FirstCandidate(d)
                IN /\ qOut.fetched[k] = first
                   /\ qOut.mappings[k].entry.ip = FirstAddress(QLines[first].arch.frag)
                   /\ \A k2 \in 1..Len(qOut.mappings) :
                        (k2 # k /\ qOut.mappings[k2].tag = "Some")
                            => qOut.mappings[k2].entry.timestr # d

\* C3 witness: an entry was emitted for a day on which a later line of the same
\* host offers a different address.
C3_Witness ==
    /\ qPc = "done" /\ qOut.tag = "Ok"
    /\ \E k \in 1..Len(qOut.mappings), i \in Range(qOut.skipped) :
         /\ qOut.mappings[k].tag = "Some"
         /\ qOut.fetched[k] < i
         /\ DateOf(i) = qOut.mappings[k].entry.timestr
         /\ QLines[i].arch = ArchIp2
         /\ qOut.mappings[k].entry.ip = Ip1

----------------------------------------------------------------------------
(* Properties of parse_idx_entry / read_cluster_idx (under SpecIdx)        *)

\* The reversed-domain key of a cluster-index line: the text before the first
\* ")" of the first space-separated token of the first tab-separated field.
KeyOfLine(line) ==
    Split(Split(Split(line, <<"\t">>)[1], <<" ">>)[1], <<")">>)[1]

KeyComponents(line) == Split(KeyOfLine(line), <<",">>)

AllDigits(s) == \A i \in 1..Len(s) : s[i] \in Digits

RECURSIVE DotJoinDownFrom(_, _)
\* comps[j], ".", comps[j-1], ".", ..., comps[1]
DotJoinDownFrom(comps, j) ==
    IF j = 1 THEN comps[1]
    ELSE comps[j] \o <<".">> \o DotJoinDownFrom(comps, j - 1)

\* C4: a line whose key has an all-digits first component yields no locator,
\* and every locator read_cluster_idx returns comes from a line whose first
\* component is not all digits and has as host that line's comma-separated key
\* components reversed and joined with ".".
C4_NoLocatorForNumericKey ==
    idxPc = "done" =>
        \E f \in [1..Len(pointers) -> 1..Len(idxDoc)] :
            /\ \A k, l \in 1..Len(pointers) : k < l => f[k] < f[l]
            /\ \A k \in 1..Len(pointers) :
                 LET comps == KeyComponents(idxDoc[f[k]])
                 IN /\ ~AllDigits(comps[1])
                    /\ pointers[k].host = DotJoinDownFrom(comps, Len(comps))

\* C4 witness: a document whose first line has an all-digits first component
\* and whose second line yields a locator with a two-component host.
C4_Witness ==
    /\ idxPc = "done" /\ Len(idxDoc) = 2 /\ Len(pointers) = 1
    /\ AllDigits(KeyComponents(idxDoc[1])[1])
    /\ Len(KeyComponents(idxDoc[2])) = 2

EndsWith(s, suffix) ==
    Len(s) >= Len(suffix) /\ SubSeq(s, Len(s) - Len(suffix) + 1, Len(s)) = suffix

ExampleShardSuffix ==
    <<"/", "CC-MAIN-2020-50", "/indexes/",
      "c", "d", "x", "-", "0", "0", "0", "0", "0", ".", "g", "z">>

----------------------------------------------------------------------------
(* Properties of the pipeline (under Spec)                                 *)

LinesOf(entries) == [k \in 1..Len(entries) |-> CsvLine(entries[k])]

Count(seq, x) == Cardinality({k \in 1..Len(seq) : seq[k] = x})

SameBag(a, b) ==
    /\ Len(a) = Len(b)
    /\ \A x \in Range(a) \cup Range(b) : Count(a, x) = Count(b, x)

RECURSIVE ProducedUpTo(_)
\* The entries of the query_host calls on pointers 1..n that returned.
ProducedUpTo(n) ==
    IF n = 0 THEN <<>>
    ELSE ProducedUpTo(n - 1)
         \o (IF res[n].out.tag = "Ok" THEN Flatten(res[n].out.mappings) ELSE <<>>)

Produced == ProducedUpTo(Len(res))

C7_EveryEntryWrittenOnce ==
    pc \in {"returned", "aborted"} => SameBag(file, LinesOf(Produced))

\* What holds of C7 in the code: nothing is duplicated or invented at any
\* time, and nothing is lost by a run that returns.
C7_NoneLostOnReturn ==
    /\ \A x \in Range(file) \cup Range(wbuf) :
         Count(file \o wbuf, x) <= Count(LinesOf(Produced), x)
    /\ pc = "returned" => SameBag(file, LinesOf(Produced))

C9_RunNeverAborts == idxPc = "done" => pc \notin {"unwinding", "aborted"}

ShardFetchFailed(i) == res[i].kind \in {"send_err", "http_err", "body_err"}

\* C10: when the shard range fetch of a pointer fails, query_host returns an
\* empty result after that single request and no archive request, the pointer
\* is completed and its host is pushed to the progress channel (each host as
\* often as pointers of that host are completed).
C10_ShardFailureIsSoft ==
    /\ \A i \in DOMAIN tasks :
         ShardFetchFailed(i) =>
            /\ res[i].out.tag = "Ok" /\ res[i].out.mappings = <<>>
            /\ res[i].out.arch_reqs = <<>> /\ Len(res[i].out.shard_reqs) = 1
            /\ tasks[i] \in {"running", "done"}
            /\ pc \in {"join", "returned", "unwinding", "aborted"} => tasks[i] = "done"
    /\ \A i \in DOMAIN tasks :
         Count(pbSent, pointers[i].host)
            = Cardinality({j \in DOMAIN tasks :
                             tasks[j] = "done" /\ pointers[j].host = pointers[i].host})

\* C10 witness: a returned run in which one pointer's shard fetch got an error
\* status and another pointer produced entries.
C10_Witness ==
    /\ pc = "returned" /\ Len(file) >= 1
    /\ \E i \in DOMAIN tasks :
         /\ res[i].kind = "http_err"
         /\ pointers[i].host \in Range(pbSent)

----------------------------------------------------------------------------
(* Properties of the archive fetch inside query_host (under SpecResolve)   *)

\* Whether the archive range request made for shard line i got no response or
\* an error status.
ArchFetchFailed(i) == QLines[i].arch.kind \in {"send_err", "http_err"}

\* The lines the loop of the call went through without unwinding.
Processed ==
    Range(qOut.fetched) \cup Range(qOut.skipped) \cup Range(qOut.foreign)
        \cup Range(qOut.unparsed)

\* C11: when the archive range fetch made for a line fails (no response or an
\* error status), the call records no entry for the line's date, makes no
\* second archive request for that date, and goes on with the remaining shard
\* lines: lines of other dates whose fragment carries an address still yield
\* their entry.
C11_ArchiveFailureIsSoft ==
    qPc = "done" =>
        \A k \in 1..Len(qOut.fetched) :
            LET i == qOut.fetched[k]
            IN (/\ ArchFetchFailed(i)
                /\ ParseI64(QLines[i].json.offset).ok
                /\ ParseI64(QLines[i].json.length).ok) =>
                  /\ k <= Len(qOut.mappings)
                  /\ qOut.mappings[k].tag = "None"
                  /\ \A e \in Range(Emitted) : e.timestr # DateOf(i)
                  /\ Cardinality({k2 \in 1..Len(qOut.fetched) :
                                    DateOf(qOut.fetched[k2]) = DateOf(i)}) = 1
                  /\ Len(qOut.arch_reqs) = Len(qOut.fetched)
                  /\ qOut.tag = "Ok" => \A j \in 1..Len(QLines) : j \in Processed
                  /\ \A k2 \in (k + 1)..Len(qOut.mappings) :
                        QLines[qOut.fetched[k2]].arch \in {ArchIp1, ArchIp2}
                            => qOut.mappings[k2].tag = "Some"

\* C11 witness: the fetch for the first date failed, a later line of that date
\* was skipped, and a line of another date after it yielded its entry.
C11_Witness ==
    /\ qPc = "done" /\ qOut.tag = "Ok"
    /\ \E k \in 1..Len(qOut.fetched), i2 \in Range(qOut.skipped) :
         /\ ArchFetchFailed(qOut.fetched[k])
         /\ qOut.fetched[k] < i2
         /\ DateOf(i2) = DateOf(qOut.fetched[k])
         /\ \E k2 \in (k + 1)..Len(qOut.mappings) :
              /\ qOut.mappings[k2].tag = "Some"
              /\ qOut.fetched[k2] > i2

----------------------------------------------------------------------------
(* Properties of the start of the run (under Spec)                         *)

\* Whether a line of the document does not split on tab into 5 fields: a
\* split on a one-character separator gives one field more than the line has
\* separators.
WrongFieldCount(line) ==
    Cardinality({i \in 1..Len(line) : <<line[i]>> = Tab}) # 4

\* C12: a cluster-index line that does not split on tab into exactly 5 fields
\* is fatal: once the document has been read the run is aborted, no pointer
\* was returned or resolved, the writer thread was never spawned and the
\* output file was never created or written.
C12_MalformedLineIsFatal ==
    (pc # "start" /\ \E n \in 1..Len(idxDoc) : WrongFieldCount(idxDoc[n])) =>
        /\ idxPc = "panic" /\ pc = "aborted"
        /\ pointers = <<>> /\ tasks = <<>> /\ res = <<>>
        /\ wpc = "off" /\ file = <<>> /\ wbuf = <<>>
        /\ chan = <<>> /\ arrived = <<>> /\ pbSent = <<>>

\* C12 witness: the run was aborted by a document whose first line decodes to
\* a pointer and whose second line has a field too few or too many.
C12_Witness ==
    /\ pc = "aborted" /\ idxPc = "panic" /\ Len(idxDoc) = 2
    /\ parse_idx_entry(IndexId, idxDoc[1]).tag = "Some"
    /\ WrongFieldCount(idxDoc[2])

----------------------------------------------------------------------------
(* Properties of the Index ordering and selection (under SpecIndex)        *)

\* Whether a name has the form "{Month} {Year} Index".
HasMonthYearForm(name) == ScanMonthYearIndex(name).ok

\* The calendar position of such a name, counted in months.
MonthCount(name) ==
    ScanMonthYearIndex(name).year * 12 + ScanMonthYearIndex(name).month

\* C13: for a non-empty catalog whose names all have the form "{Month} {Year}
\* Index", the Index get_newest_index returns, and the one main selects by
\* default, has the latest calendar date of all entries of the catalog.
C13_NewestIsSelected ==
    (/\ catPc \in {"lib_done", "main_done"}
     /\ \A i \in 1..Len(catalog) : HasMonthYearForm(catalog[i].name)) =>
        \A i \in 1..Len(catalog) :
            MonthCount(catalog[i].name) <= MonthCount(catOut.selected.name)

----------------------------------------------------------------------------
(* Properties of the requests of query_host (under SpecResolve)            *)

\* The dates of the lines handed to retrieve_ip.
FetchedDates == {DateOf(i) : i \in Range(qOut.fetched)}

\* C14 as stated: every call of query_host makes exactly two range requests,
\* one to the shard and then one to an archive file.
C14_ExactlyTwoRoundTrips ==
    qPc = "done" => Len(qOut.shard_reqs) + Len(qOut.arch_reqs) = 2

\* C14 amended: every call of query_host makes exactly one shard range request
\* and then one archive range request for each line it hands to retrieve_ip,
\* which is at most one for each date among the lines of the pointer's host
\* and none when the shard request failed; the call changes nothing but its
\* own result.
C14_OneShardThenOnePerDate ==
    qPc = "done" =>
        /\ Len(qOut.shard_reqs) = 1
        /\ qOut.shard_reqs[1].url = qIn.pointer.index_file_name
        /\ Len(qOut.arch_reqs) <= Len(qOut.fetched)
        /\ Len(qOut.fetched) = Cardinality(FetchedDates)
        /\ FetchedDates \subseteq {DateOf(i) : i \in Reached}
        /\ qOut.tag = "Ok" =>
             /\ Len(qOut.arch_reqs) = Len(qOut.fetched)
             /\ qOut.futures_times = FetchedDates
        /\ qIn.rsp.kind # "ok" => qOut.arch_reqs = <<>>
        /\ PipeOff /\ CatOff /\ IdxOff

\* C14 witness: a call that returned after three archive requests, and so
\* after four range requests.
C14_Witness ==
    /\ qPc = "done" /\ qOut.tag = "Ok"
    /\ Len(qOut.shard_reqs) = 1 /\ Len(qOut.arch_reqs) = 3

----------------------------------------------------------------------------
(* Properties relating the two host decoders (under SpecResolve)           *)

\* The reversed-domain key of a shard line: its first field up to ")".
ShardKey(line) == Split(line.fields[1], <<")">>)[1]

\* The cluster-index lines the pointers of SpecResolve were decoded from.
PointerLines == {LineAB, LineABPort}

\* C15: query_host computes the host of a shard line's key as parse_idx_entry
\* computes the host of the same key in a cluster-index line, keys with a
\* ":port" suffix included, so that a shard line whose key is the key of the
\* pointer's cluster-index line is never discarded as another host's.
C15_SameDecodingRule ==
    qPc = "done" =>
        \A i \in Processed :
            LET token == QLines[i].fields[1]
            IN /\ IdxHost(token).some => ShardHost(token) = IdxHost(token).host
               /\ \A l \in PointerLines :
                    (/\ qIn.pointer = parse_idx_entry(IndexId, l).ptr
                     /\ ShardKey(QLines[i]) = KeyOfLine(l))
                        => i \notin Range(qOut.foreign)

\* The comparison of two names of the form "{Month} {Year} Index" by calendar
\* date.
MonthCountCmp(a, b) ==
    IF MonthCount(a) < MonthCount(b) THEN "Less"
    ELSE IF MonthCount(a) > MonthCount(b) THEN "Greater"
    ELSE "Equal"

\* Whether the sorted list is ascending by the comparison cmp.
Ascending(list, cmp(_, _)) ==
    \A i, j \in 1..Len(list) : i < j => cmp(list[i].name, list[j].name) # "Greater"

\* C16: two Index values whose names both have the form "{Month} {Year} Index"
\* compare by calendar date, and any other two compare as their names do
\* lexically; a sorted catalog is ascending by that comparison.  For 'March
\* 2020 Index', 'November 2020 Index' and 'Special Index': March is less than
\* November, and each of them compares with Special as the names do.
C16_DateOrderWhenBothParse ==
    catPc \in {"lib_done", "main_done"} =>
        /\ \A i, j \in 1..Len(catalog) :
             LET a == catalog[i]
                 b == catalog[j]
             IN IF HasMonthYearForm(a.name) /\ HasMonthYearForm(b.name)
                THEN IndexCmp(a, b) = MonthCountCmp(a.name, b.name)
                ELSE IndexCmp(a, b) = StrCmp(a.name, b.name)
        /\ (\A i \in 1..Len(catalog) : HasMonthYearForm(catalog[i].name))
              => Ascending(catOut.sorted, MonthCountCmp)
        /\ IndexCmp(March2020, November2020) = "Less"
        /\ IndexCmp(March2020, SpecialIndex) = StrCmp(March2020.name, SpecialIndex.name)
        /\ IndexCmp(SpecialIndex, November2020)
             = StrCmp(SpecialIndex.name, November2020.name)

\* The part of C16 that holds of the code: the three names of the example are
\* ordered March, November, Special, and every comparison is the lexical
\* comparison of the names.
C16_ExampleAndLexical ==
    catPc \in {"lib_done", "main_done"} =>
        /\ \A i, j \in 1..Len(catalog) :
             IndexCmp(catalog[i], catalog[j]) = StrCmp(catalog[i].name, catalog[j].name)
        /\ Ascending(catOut.sorted, StrCmp)
        /\ SortIndices(<<SpecialIndex, November2020, March2020>>)
             = <<March2020, November2020, SpecialIndex>>

----------------------------------------------------------------------------
(* Properties of the progress channel (under Spec)                         *)

\* How often a host was pushed, and how many pointers have that host.
Pushes(host) == Count(pbSent, host)
PointersOf(host) == {j \in DOMAIN tasks : pointers[j].host = host}

\* Whether every entry of pointer i's result has been sent on the mapping
\* channel.
AllEntriesSent(i) ==
    /\ workers[i] = <<>>
    /\ \A e \in Range(Flatten(res[i].out.mappings)) :
         Count(arrived, e)
            >= Cardinality({j \in DOMAIN tasks :
                              tasks[j] = "done"
                              /\ e \in Range(Flatten(res[j].out.mappings))})

\* The order of the pushes of one pointer: a host is pushed only for a pointer
\* whose query_host call has returned and whose entries have all been sent,
\* and once for each such pointer.
C17_PushedAfterEntries ==
    /\ \A i \in DOMAIN tasks :
         tasks[i] = "done" =>
            /\ res[i].kind # "none" /\ res[i].out.tag = "Ok"
            /\ AllEntriesSent(i)
    /\ \A i \in DOMAIN tasks :
         Pushes(pointers[i].host)
            = Cardinality({j \in PointersOf(pointers[i].host) : tasks[j] = "done"})
    /\ Len(pbSent) = Cardinality({j \in DOMAIN tasks : tasks[j] = "done"})

\* C17: for every pointer, its host is pushed onto the progress channel exactly
\* once, after its query_host call has returned and its entries have been sent
\* on the mapping channel: when the pool has ended, every pointer has been
\* completed so.
C17_EveryHostPushedOnce ==
    /\ C17_PushedAfterEntries
    /\ (idxPc = "done" /\ pc \in {"join", "returned", "unwinding", "aborted"}) =>
          \A i \in DOMAIN tasks : tasks[i] = "done"

----------------------------------------------------------------------------
(* Properties of the byte ranges (under SpecResolve)                       *)

Min(a, b) == IF a < b THEN a ELSE b

\* C18: the shard request asks for the bytes from range_start to range_start +
\* range_length of the pointer's shard URL, and the archive request made for a
\* record asks for the bytes from offset to offset + min(length, 901) of the
\* record's file: never more than 901 past the offset.
C18_ByteRanges ==
    qPc = "done" =>
        /\ qOut.shard_reqs
             = <<[url |-> qIn.pointer.index_file_name,
                  start |-> NumVal(qIn.pointer.range_start),
                  end |-> NumVal(qIn.pointer.range_start)
                          + NumVal(qIn.pointer.range_length)]>>
        /\ \A k \in 1..Len(qOut.arch_reqs) :
             LET record == QLines[qOut.fetched[k]].json
                 req == qOut.arch_reqs[k]
             IN /\ req.url = BASE_URL \o <<"/">> \o record.filename
                /\ req.start = NumVal(record.offset)
                /\ req.end = NumVal(record.offset) + Min(NumVal(record.length), 901)
                /\ req.end - req.start <= 901

\* C18 witness: a call for the pointer whose range is 2 to 9 made archive
\* requests for a record of length 901 and for a record of length 902.
C18_Witness ==
    /\ qPc = "done" /\ qOut.shard_reqs[1].start = 2 /\ qOut.shard_reqs[1].end = 9
    /\ \E k1, k2 \in 1..Len(qOut.arch_reqs) :
         /\ QLines[qOut.fetched[k1]].json = JsonAtCap
         /\ QLines[qOut.fetched[k2]].json = JsonLong
         /\ qOut.arch_reqs[k1].end = 906 /\ qOut.arch_reqs[k2].end = 906

----------------------------------------------------------------------------
(* Properties of the date of an entry (under SpecResolve)                  *)

\* The first eight characters of a timestamp, written YYYY-MM-DD.
TruncatedDate(ts) ==
    SubSeq(ts, 1, 4) \o <<"-">> \o SubSeq(ts, 5, 6) \o <<"-">> \o SubSeq(ts, 7, 8)

\* Whether the first eight characters of a timestamp are digits that name a
\* day of the calendar.
NamesCalendarDay(ts) ==
    /\ Len(ts) >= 8 /\ \A i \in 1..8 : ts[i] \in Digits
    /\ ValidYmd(DigitsToInt(SubSeq(ts, 1, 4), 0), DigitsToInt(SubSeq(ts, 5, 6), 0),
                DigitsToInt(SubSeq(ts, 7, 8), 0))

\* C19: the date of every emitted entry is the first eight digits of the
\* timestamp of the shard line it was made from, written YYYY-MM-DD, whatever
\* the timestamp (and so whatever the clock shows).
C19_DateIsTimestampPrefix ==
    qPc = "done" =>
        \A k \in 1..Len(qOut.mappings) :
            qOut.mappings[k].tag = "Some" =>
                qOut.mappings[k].entry.timestr
                    = TruncatedDate(QLines[qOut.fetched[k]].fields[2])

\* The part of C19 that holds of the code: the date is the truncation for
\* every timestamp whose first eight digits name a day of the calendar, and
\* the day the clock shows for every other one.
C19_DateOfCalendarDay ==
    qPc = "done" =>
        \A k \in 1..Len(qOut.mappings) :
            LET line == QLines[qOut.fetched[k]]
            IN qOut.mappings[k].tag = "Some" =>
                 qOut.mappings[k].entry.timestr
                    = IF NamesCalendarDay(line.fields[2])
                      THEN TruncatedDate(line.fields[2])
                      ELSE FormatYmd(line.now)

----------------------------------------------------------------------------
(* Properties of the scan of an archive fragment (under SpecFragment)      *)

\* The fragment the archive server answered with.
Frag == QLines[1].arch.frag

\* The lines of the fragment read before the decoder fails.
Readable == {i \in 1..Len(Frag) : \A j \in 1..i : Frag[j].ok}

\* The text after "WARC-IP-Address: " of a line that begins so.
HeaderValue(text) == SubSeq(text, Len(WarcIpHeader) + 3, Len(text))

\* The values among those of FragLines that are the text of an IPv4 or IPv6
\* address, and the address each denotes as an entry prints it.
AddressTexts == {Ip1, Ip3, Ip6Long}
AddressOf(text) == IF text = Ip6Long THEN <<":", ":", "1">> ELSE text

\* The readable lines that begin with the header, and those of them whose
\* value is the text of an address.
HeaderLines == {i \in Readable : StartsWith(Frag[i].text, WarcIpHeader)}
AddressLines ==
    {i \in HeaderLines :
        /\ StartsWith(Frag[i].text, WarcIpHeader \o <<":", " ">>)
        /\ HeaderValue(Frag[i].text) \in AddressTexts}

----------------------------------------------------------------------------
(* Properties of the host test of query_host (under SpecResolve)           *)

\* The position of the first ")" or ":" of a key token (past its end if none).
AuthorityEnd(token) ==
    LET stops == {i \in 1..Len(token) : token[i] \in {")", ":"}}
    IN IF stops = {} THEN Len(token) + 1
       ELSE CHOOSE i \in stops : \A j \in stops : i <= j

\* The host a key token names: its labels up to the port or path, outermost
\* label last.
HostOfKey(token) ==
    Join(Reverse(Split(SubSeq(token, 1, AuthorityEnd(token) - 1), <<",">>)),
         <<".">>)

\* Whether line i of the shard answer is a line of another host than the
\* pointer's.
Neighbour(i) == HostOfKey(QLines[i].fields[1]) # qIn.pointer.host

RECURSIVE WithoutNeighbours(_, _)
\* The shard lines from position i on, the lines of other hosts left out.
WithoutNeighbours(lines, i) ==
    IF i > Len(lines) THEN <<>>
    ELSE IF lines[i].ok /\ Neighbour(i) THEN WithoutNeighbours(lines, i + 1)
    ELSE <<lines[i]>> \o WithoutNeighbours(lines, i + 1)

\* C21: every entry a call of query_host emits carries the host of the pointer
\* it was resolved from; a shard line of another host is never handed to the
\* archive fetch, produces no entry and marks no date: the dates marked are
\* dates of fetched lines of the pointer's host, and the call returns what it
\* returns on the same answer with the lines of other hosts left out.
C21_OnlyLocatorHostLines ==
    qPc = "done" =>
        /\ \A k \in 1..Len(qOut.mappings) :
             qOut.mappings[k].tag = "Some" =>
                 qOut.mappings[k].entry.host = qIn.pointer.host
        /\ \A i \in Processed :
             Neighbour(i) => /\ i \in Range(qOut.foreign)
                             /\ i \notin Range(qOut.fetched)
                             /\ \A p \in Range(qOut.dates) : p[1] # i
        /\ \A d \in qOut.futures_times :
             \E i \in Range(qOut.fetched) : ~Neighbour(i) /\ DateOf(i) = d
        /\ LET alone == query_host(qIn.pointer,
                                   [qIn.rsp EXCEPT
                                      !.lines = WithoutNeighbours(QLines, 1)])
           IN /\ alone.tag = qOut.tag
              /\ alone.mappings = qOut.mappings
              /\ alone.futures_times = qOut.futures_times

\* C21 witness: a line of another host came first in the range, and a later
\* line of the pointer's host with the same timestamp was still fetched and
\* produced the entry of that date.
C21_Witness ==
    /\ qPc = "done" /\ qOut.tag = "Ok"
    /\ \E i \in Range(qOut.foreign), k \in 1..Len(qOut.fetched) :
         /\ Neighbour(i)
         /\ i < qOut.fetched[k]
         /\ QLines[i].fields[2] = QLines[qOut.fetched[k]].fields[2]
         /\ qOut.mappings[k].tag = "Some"
         /\ qOut.mappings[k].entry.host = qIn.pointer.host

----------------------------------------------------------------------------
(* Properties of the Index comparison as an order (under SpecIndex)        *)

\* The opposite of an Ordering.
Opposite(o) == IF o = "Less" THEN "Greater" ELSE IF o = "Greater" THEN "Less" ELSE o

\* Whether cmp is antisymmetric and transitive on the entries of a catalog.
CmpIsOrderOn(indices) ==
    /\ \A i, j \in 1..Len(indices) :
         IndexCmp(indices[i], indices[j]) = Opposite(IndexCmp(indices[j], indices[i]))
    /\ \A i, j, k \in 1..Len(indices) :
         (/\ IndexCmp(indices[i], indices[j]) # "Greater"
          /\ IndexCmp(indices[j], indices[k]) # "Greater")
            => /\ IndexCmp(indices[i], indices[k]) # "Greater"
               /\ (IndexCmp(indices[i], indices[k]) = "Equal"
                     => IndexCmp(indices[i], indices[j]) = "Equal")

\* C22: on the entries of a sorted catalog, whatever the form of their names,
\* cmp is antisymmetric and transitive, and cmp(a, b) is Equal exactly when
\* a == b, that is when a and b have the same id.
C22_OrderAgreesWithEq ==
    catPc \in {"lib_done", "main_done"} =>
        /\ CmpIsOrderOn(catalog)
        /\ \A i, j \in 1..Len(catalog) :
             (IndexCmp(catalog[i], catalog[j]) = "Equal")
                <=> IndexEq(catalog[i], catalog[j])

\* The part of C22 that holds of the code: cmp is antisymmetric and
\* transitive, is Equal exactly when the names are the same text, and the
\* sorted catalog is a permutation of the catalog in ascending order of cmp.
C22_OrderOfNames ==
    catPc \in {"lib_done", "main_done"} =>
        /\ CmpIsOrderOn(catalog)
        /\ \A i, j \in 1..Len(catalog) :
             (IndexCmp(catalog[i], catalog[j]) = "Equal")
                <=> (catalog[i].name = catalog[j].name)
        /\ Len(catOut.sorted) = Len(catalog)
        /\ \A x \in Range(catalog) :
             Cardinality({i \in 1..Len(catalog) : catalog[i] = x})
               = Cardinality({i \in 1..Len(catOut.sorted) : catOut.sorted[i] = x})
        /\ \A i, j \in 1..Len(catOut.sorted) :
             i < j => IndexCmp(catOut.sorted[i], catOut.sorted[j]) # "Greater"

----------------------------------------------------------------------------
(* Properties of a failing output file (under SpecSink)                    *)

\* C23: when the output file fails, crawl_host_ip_mapping does not return
\* normally: a run whose writer thread died never returns, and a run that
\* returns has every entry that was sent on the mapping channel in the output
\* file, in the order sent, so that no entry is lost by a run that reports
\* success.
C23_SinkFailureIsReported ==
    /\ wpc = "dead" => pc # "returned"
    /\ pc = "returned" => file = LinesOf(arrived)

\* The part of C23 that holds of the code: a writer thread that died (the
\* file could not be created, or a write to it failed) makes the run abort,
\* by a worker's send or by the join; and a run that returned lost entries
\* only if the file failed.
C23_DeadWriterNeverReturns ==
    /\ wpc = "dead" => (pc # "returned" /\ ~sinkOk)
    /\ (pc = "join" /\ wpc = "dead") => ENABLED MainJoin
    /\ (pc = "returned" /\ sinkOk) => file = LinesOf(arrived)
    /\ (pc = "returned" /\ ~sinkOk) => wpc = "done"

=============================================================================
